---- MODULE Spec2Model ----
(***************************************************************************)
(* The ICS ingestion pipeline of obsidian-full-calendar: getEventsFromICS  *)
(* and icsToOFC, in the two versions the repository holds                  *)
(* (src/unnamed/part_001, and the older src/src/calendars/parsing/ics.ts). *)
(*                                                                         *)
(* Time is counted in whole hours.  A calendar date is a day number, day 0 *)
(* being a Sunday (JS getDay() = 0); a time of day is an hour 0..23.  An   *)
(* ISO date string is modelled by its day number and an ISO time string by *)
(* its hour: both formats are injective.                                   *)
(***************************************************************************)
EXTENDS Integers, Sequences, FiniteSets, TLC

VARIABLES
    impl,       \* which version of the file is loaded: "part_001" or "ics"
    host,       \* UTC offset of the host's local zone (what Date.getDay() uses)
    registry,   \* ical.TimezoneService: registered tzid -> UTC offset
    conv,       \* one icsToOFC application: its component and its result
    call,       \* the latest getEventsFromICS call: input, intermediate values, result
    first,      \* the first getEventsFromICS call of the process (history)
    ncalls      \* number of getEventsFromICS calls made so far

vars == <<impl, host, registry, conv, call, first, ncalls>>

-----------------------------------------------------------------------------
(* Bounds of the model *)

MaxByday == 2       \* BYDAY tokens per recurrence rule
MaxEvents == 3      \* VEVENT components per calendar text
MaxCalls == 3       \* getEventsFromICS calls per process (repeated-call specification)

-----------------------------------------------------------------------------
(* JavaScript values *)

Null == -1000        \* null: what luxon's toISODate/toISOTime return for an invalid DateTime
Undefined == -2000   \* undefined

HoursPerDay == 24
DaysPerWeek == 7

DEFAULT_ZONE == "Asia/Seoul"
WEEK_DAYS == <<"MO", "TU", "WE", "TH", "FR", "SA", "SU">>

NoTz == ""           \* the timezone property of a floating or date-only value (undefined)

\* Array.prototype.indexOf on WEEK_DAYS: -1 when absent
IndexOf(p) ==
    IF \E i \in 1..Len(WEEK_DAYS) : WEEK_DAYS[i] = p
    THEN (CHOOSE i \in 1..Len(WEEK_DAYS) : WEEK_DAYS[i] = p) - 1
    ELSE -1

SeqMap(F(_), s) == [i \in 1..Len(s) |-> F(s[i])]

-----------------------------------------------------------------------------
(* luxon: IANA zones are resolved by name, independently of the registry *)

IANAZones == {"Asia/Seoul", "America/Bogota", "UTC"}

IANAOffset(z) ==
    CASE z = "Asia/Seoul" -> 9
      [] z = "America/Bogota" -> -5
      [] OTHER -> 0

\* new IANAZone(name).isValid
IsValidZone(z) == z \in IANAZones

\* DateTime.fromISO(tstr, {zone}).setZone(DEFAULT_ZONE): the canonical-zone
\* wall clock in hours, or Null for an invalid DateTime.  A trailing "Z" in
\* the text fixes the offset to 0 whatever the zone option says; a date-only
\* text is midnight in the zone.
FromISOInDefault(tstr, tzone) ==
    IF ~IsValidZone(tzone) THEN Null
    ELSE LET wall == tstr.day * HoursPerDay + (IF tstr.isDate THEN 0 ELSE tstr.hour)
             instant == IF tstr.z THEN wall ELSE wall - IANAOffset(tzone)
         IN  instant + IANAOffset(DEFAULT_ZONE)

ToISODate(local) == IF local = Null THEN Null ELSE local \div HoursPerDay
ToISOTime(local) == IF local = Null THEN Null ELSE local % HoursPerDay

-----------------------------------------------------------------------------
(* ical.js: a property value is an ical.Time whose zone is looked up in    *)
(* TimezoneService when the value is built                                 *)

NoTime == [kind |-> "none"]     \* the property is absent
BadTime == [kind |-> "bad"]     \* a value that is no ical.Time: toJSDate() throws

\* ICAL.Time.fromData: "Z" is the UTC zone, a registered tzid is that zone,
\* anything else (no tzid, an unregistered tzid, a date-only value) is the
\* floating local zone.
Hydrate(raw, reg) ==
    IF raw.kind # "time" THEN raw
    ELSE [kind |-> "time", day |-> raw.day, hour |-> raw.hour, isDate |-> raw.isDate,
          timezone |-> raw.tzid,
          zone |-> IF raw.isDate THEN "local"
                   ELSE IF raw.tzid = "Z" THEN "utc"
                   ELSE IF raw.tzid \in DOMAIN reg THEN "tz"
                   ELSE "local",
          utcOffset |-> IF ~raw.isDate /\ raw.tzid \in DOMAIN reg THEN reg[raw.tzid] ELSE 0]

Wall(t) == t.day * HoursPerDay + (IF t.isDate THEN 0 ELSE t.hour)

\* ICAL.Time.toUnixTime: the floating zone counts as UTC
ToUnixTime(t) == Wall(t) - t.utcOffset

\* ICAL.Time.toJSDate: a floating value is built from its fields in the host's zone
ToJSDate(t, h) == IF t.zone = "local" THEN Wall(t) - h ELSE ToUnixTime(t)

GetUTCDay(instant) == (instant \div HoursPerDay) % DaysPerWeek
GetDay(instant, h) == ((instant + h) \div HoursPerDay) % DaysPerWeek

\* ICAL.Time.toString: ISO text, with a trailing "Z" only for the UTC zone
TimeToString(t) == [day |-> t.day, hour |-> t.hour, isDate |-> t.isDate, z |-> (t.zone = "utc")]

\* ical.Event.startDate / endDate: without DTEND the end is a clone of the
\* start (one day later for a date-only start)
StartDate(e) == e.dtstart
EndDate(e) ==
    IF e.dtend.kind # "none" THEN e.dtend
    ELSE IF e.dtstart.kind # "time" THEN e.dtstart
    ELSE IF e.dtstart.isDate THEN [e.dtstart EXCEPT !.day = @ + 1]
    ELSE e.dtstart

-----------------------------------------------------------------------------
(* The time normalizers *)

getDate(t) == (ToUnixTime(t) + IANAOffset(DEFAULT_ZONE)) \div HoursPerDay

getDateL(tstr, tzone) ==
    LET z1 == IF tzone = NoTz THEN DEFAULT_ZONE ELSE tzone
        z2 == IF z1 = "Z" THEN "UTC" ELSE z1
    IN  ToISODate(FromISOInDefault(tstr, z2))

getTimeL(tstr, tzone) ==
    LET z1 == IF tzone = NoTz THEN DEFAULT_ZONE ELSE tzone
        z2 == IF z1 = "Z" THEN "UTC" ELSE z1
    IN  ToISOTime(FromISOInDefault(tstr, z2))

\* ics.ts: the same three without the defaulting of the zone name
getTimeIcs(t) ==
    IF t.isDate THEN 0
    ELSE (ToUnixTime(t) + IANAOffset(DEFAULT_ZONE)) % HoursPerDay

getDateLIcs(tstr, tzone) == ToISODate(FromISOInDefault(tstr, tzone))

getTimeLIcs(tstr, tzone) == ToISOTime(FromISOInDefault(tstr, tzone))

specifiesEnd(e) == e.dtend.kind # "none"

-----------------------------------------------------------------------------
(* The weekday rule adjuster and the rule serializer *)

\* day_diff = startDate.toJSDate().getUTCDay() - startDate.toJSDate().getDay()
day_diff(start, h) == GetUTCDay(ToJSDate(start, h)) - GetDay(ToJSDate(start, h), h)

\* the callback of fv.parts["BYDAY"].map
RotateToken(p, d) == WEEK_DAYS[((IndexOf(p) + d + DaysPerWeek) % DaysPerWeek) + 1]

\* AdjustByday without the test of day_diff
AdjustBydayUnguarded(byday, d) ==
    IF byday # <<>>
    THEN [i \in 1..Len(byday) |-> RotateToken(byday[i], d)]
    ELSE byday

AdjustByday(byday, d) ==
    IF d # 0 /\ byday # <<>>
    THEN [i \in 1..Len(byday) |-> RotateToken(byday[i], d)]
    ELSE byday

\* rrulestr(text).toString(): a weekday is printed bare, an ordinal weekday
\* with its sign ("1MO" comes back as "+1MO")
RRuleToken(p) ==
    CASE p = "1MO" -> "+1MO"
      [] p = "2TU" -> "+2TU"
      [] OTHER -> p

RRuleToString(byday) == [freq |-> "WEEKLY", byday |-> SeqMap(RRuleToken, byday)]

-----------------------------------------------------------------------------
(* icsToOFC *)

exdatesOf(e) ==
    [i \in 1..Len(e.exdates) |->
        getDateL(TimeToString(e.exdates[i]), e.exdates[i].timezone)]

exdatesOfIcs(e) == [i \in 1..Len(e.exdates) |-> getDate(e.exdates[i])]

RecurringId(uid, date) == [uid |-> uid, date |-> date, kind |-> "recurring"]
SingleId(uid, date) == [uid |-> uid, date |-> date, kind |-> "single"]

\* WithTimes with the time fields spread in for an all-day event too
WithTimesAlways(rec, allDay, startTime, endTime) ==
    rec @@ [allDay |-> allDay, startTime |-> startTime, endTime |-> endTime]

\* the spread { allDay: true } or { allDay: false, startTime, endTime }
WithTimes(rec, allDay, startTime, endTime) ==
    IF allDay
    THEN rec @@ [allDay |-> TRUE]
    ELSE rec @@ [allDay |-> FALSE, startTime |-> startTime, endTime |-> endTime]

\* part_001
icsToOFC(e, h) ==
    LET start == StartDate(e)
        end == EndDate(e)
    IN  IF e.hasRRule
        THEN WithTimes(
                [type |-> "rrule",
                 title |-> e.summary,
                 id |-> RecurringId(e.uid, getDate(start)),
                 rrule |-> RRuleToString(AdjustByday(e.byday, day_diff(start, h))),
                 skipDates |-> exdatesOf(e),
                 startDate |-> getDateL(TimeToString(start), start.timezone)],
                start.isDate,
                getTimeL(TimeToString(start), start.timezone),
                getTimeL(TimeToString(end), start.timezone))
        ELSE LET date == getDateL(TimeToString(start), start.timezone)
                 endDate == IF specifiesEnd(e)
                            THEN getDateL(TimeToString(end), end.timezone)
                            ELSE Undefined
             IN  WithTimes(
                    [type |-> "single",
                     id |-> SingleId(e.uid, date),
                     title |-> e.summary,
                     date |-> date,
                     endDate |-> IF date # endDate THEN endDate ELSE Undefined],
                    start.isDate,
                    getTimeL(TimeToString(start), start.timezone),
                    getTimeL(TimeToString(end), start.timezone))

\* ics.ts
icsToOFCIcs(e) ==
    LET start == StartDate(e)
        end == EndDate(e)
    IN  IF e.hasRRule
        THEN WithTimes(
                [type |-> "rrule",
                 title |-> e.summary,
                 id |-> RecurringId(e.uid, getDate(start)),
                 rrule |-> RRuleToString(e.byday),
                 skipDates |-> exdatesOfIcs(e),
                 startDate |-> getDate(start)],
                start.isDate,
                getTimeIcs(start),
                getTimeIcs(end))
        ELSE LET date == getDateLIcs(TimeToString(start), start.timezone)
                 endDate == IF specifiesEnd(e)
                            THEN getDateLIcs(TimeToString(end), end.timezone)
                            ELSE Undefined
             IN  WithTimes(
                    [type |-> "single",
                     id |-> SingleId(e.uid, date),
                     title |-> e.summary,
                     date |-> date,
                     endDate |-> IF date # endDate THEN endDate ELSE Undefined],
                    start.isDate,
                    getTimeLIcs(TimeToString(start), start.timezone),
                    getTimeLIcs(TimeToString(end), end.timezone))

\* the icsToOFC of the loaded version
Convert(e, v, h) == IF v = "part_001" THEN icsToOFC(e, h) ELSE icsToOFCIcs(e)

\* new ical.Event(vevent) with its values built against the registry
HydrateEvent(c, reg) ==
    [c EXCEPT !.dtstart = Hydrate(c.dtstart, reg),
              !.dtend = Hydrate(c.dtend, reg),
              !.exdates = [i \in 1..Len(c.exdates) |-> Hydrate(c.exdates[i], reg)]]

-----------------------------------------------------------------------------
(* A JavaScript object: the sequence of its own properties in property     *)
(* order (array-index keys first, ascending, then the others as inserted)  *)

Entry(k, v) == [key |-> k, value |-> v]

\* the value of a key that is a canonical array index, else -1
ArrayIndex(k) ==
    CASE k = "2" -> 2
      [] k = "10" -> 10
      [] OTHER -> -1

IsArrayIndex(k) == ArrayIndex(k) >= 0

\* names every object inherits from Object.prototype
ObjectPrototypeKeys == {"constructor", "toString", "valueOf", "hasOwnProperty", "__proto__"}

HasOwn(obj, k) == \E i \in 1..Len(obj) : obj[i].key = k

OwnAt(obj, k) == CHOOSE i \in 1..Len(obj) : obj[i].key = k

\* own properties that stay before a new array-index key k
Before(obj, k) ==
    Cardinality({i \in 1..Len(obj) :
                    IsArrayIndex(obj[i].key) /\ ArrayIndex(obj[i].key) < ArrayIndex(k)})

\* CreateDataProperty: an existing key keeps its place and takes the new value
SetProp(obj, k, v) ==
    IF HasOwn(obj, k) THEN [obj EXCEPT ![OwnAt(obj, k)] = Entry(k, v)]
    ELSE IF IsArrayIndex(k)
         THEN SubSeq(obj, 1, Before(obj, k)) \o <<Entry(k, v)>>
                \o SubSeq(obj, Before(obj, k) + 1, Len(obj))
         ELSE Append(obj, Entry(k, v))

RECURSIVE ObjectFromEntries(_)
ObjectFromEntries(entries) ==
    IF entries = <<>> THEN <<>>
    ELSE LET n == Len(entries)
         IN  SetProp(ObjectFromEntries(SubSeq(entries, 1, n - 1)),
                     entries[n].key, entries[n].value)

ObjectValues(obj) == [i \in 1..Len(obj) |-> obj[i].value]

\* obj[k]: an own property, a property of Object.prototype, or undefined
GetProp(obj, k) ==
    IF HasOwn(obj, k) THEN [found |-> "own", at |-> OwnAt(obj, k)]
    ELSE IF k \in ObjectPrototypeKeys THEN [found |-> "proto", at |-> 0]
    ELSE [found |-> "none", at |-> 0]

-----------------------------------------------------------------------------
(* validateEvent is imported from ../../types: it gives back the event or  *)
(* null.  Here it rejects the events without a usable title.               *)

NullEvent == [type |-> "null"]

RejectedTitles == {"bad"}

validateEvent(e) == IF e.title \in RejectedTitles THEN NullEvent ELSE e

-----------------------------------------------------------------------------
(* getEventsFromICS *)

\* ical.TimezoneService.register for every VTIMEZONE, in order
RECURSIVE RegisterAll(_, _)
RegisterAll(reg, vtimezones) ==
    IF vtimezones = <<>> THEN reg
    ELSE LET tz == Head(vtimezones)
         IN  RegisterAll([z \in DOMAIN reg \cup {tz.tzid} |->
                            IF z = tz.tzid THEN tz.offset ELSE reg[z]],
                         Tail(vtimezones))

\* the try block of the filter: startDate.toJSDate() and endDate.toJSDate()
\* both return
Resolvable(e) == e.dtstart.kind = "time" /\ EndDate(e).kind = "time"

\* FilterEvents giving up at the first event that does not resolve
RECURSIVE FilterEventsBreak(_)
FilterEventsBreak(evts) ==
    IF evts = <<>> \/ ~Resolvable(Head(evts)) THEN <<>>
    ELSE <<Head(evts)>> \o FilterEventsBreak(Tail(evts))

\* lines 161-174: the events of the text whose start and end resolve
FilterEvents(evts) == SelectSeq(evts, Resolvable)

IsBase(e) == ~e.recurrenceId
IsException(e) == e.recurrenceId

\* ReconcileOne without the test of a missing base event: reading .type of
\* undefined throws
ReconcileOneNoMissCheck(st, ex) ==
    LET p == GetProp(st.obj, ex.key)
    IN  IF st.threw THEN st
        ELSE IF p.found = "none" THEN [st EXCEPT !.threw = TRUE]
        ELSE IF p.found = "proto" THEN [st EXCEPT !.warned = @ + 1]
        ELSE IF st.obj[p.at].value.type # "rrule" \/ ex.value.type # "single"
             THEN [st EXCEPT !.warned = @ + 1]
        ELSE [st EXCEPT !.obj[p.at].value.skipDates = Append(@, ex.value.date)]

\* ReconcileOne removing a base event that is not Recurring from baseEvents
\* when an override names it
ReconcileOneDropMismatch(st, ex) ==
    LET p == GetProp(st.obj, ex.key)
    IN  IF st.threw THEN st
        ELSE IF p.found = "none" THEN st
        ELSE IF p.found = "proto" THEN [st EXCEPT !.warned = @ + 1]
        ELSE IF st.obj[p.at].value.type # "rrule"
             THEN [st EXCEPT !.warned = @ + 1,
                             !.obj = SubSeq(@, 1, p.at - 1) \o SubSeq(@, p.at + 1, Len(@))]
        ELSE IF ex.value.type # "single" THEN [st EXCEPT !.warned = @ + 1]
        ELSE [st EXCEPT !.obj[p.at].value.skipDates = Append(@, ex.value.date)]

\* ReconcileOne validating the override before it merges it
ReconcileOneValidFirst(st, ex) ==
    LET p == GetProp(st.obj, ex.key)
    IN  IF st.threw THEN st
        ELSE IF p.found = "none" THEN st
        ELSE IF p.found = "proto" THEN [st EXCEPT !.warned = @ + 1]
        ELSE IF st.obj[p.at].value.type # "rrule" \/ ex.value.type # "single"
             THEN [st EXCEPT !.warned = @ + 1]
        ELSE IF validateEvent(ex.value) = NullEvent THEN st
        ELSE [st EXCEPT !.obj[p.at].value.skipDates = Append(@, ex.value.date)]

\* one iteration of the loop over recurrenceExceptions; threw marks a
\* TypeError leaving the loop, warned counts the console.warn calls (a
\* property inherited from Object.prototype is truthy and has no type)
ReconcileOne(st, ex) ==
    LET p == GetProp(st.obj, ex.key)
    IN  IF st.threw THEN st
        ELSE IF p.found = "none" THEN st
        ELSE IF p.found = "proto" THEN [st EXCEPT !.warned = @ + 1]
        ELSE IF st.obj[p.at].value.type # "rrule" \/ ex.value.type # "single"
             THEN [st EXCEPT !.warned = @ + 1]
        ELSE [st EXCEPT !.obj[p.at].value.skipDates = Append(@, ex.value.date)]

\* baseEvents before the loop and after each of its iterations
RECURSIVE ReconcileTrace(_, _)
ReconcileTrace(base, exs) ==
    IF exs = <<>> THEN <<[obj |-> base, threw |-> FALSE, warned |-> 0]>>
    ELSE LET n == Len(exs)
             prev == ReconcileTrace(base, SubSeq(exs, 1, n - 1))
         IN  Append(prev, ReconcileOne(prev[n], exs[n]))

\* FlatMapValid ending at the first rejected record
RECURSIVE FlatMapValidStop(_)
FlatMapValidStop(validated) ==
    IF validated = <<>> \/ Head(validated) = NullEvent THEN <<>>
    ELSE <<Head(validated)>> \o FlatMapValidStop(Tail(validated))

\* allEvents.map(validateEvent).flatMap((e) => (e ? [e] : []))
RECURSIVE FlatMapValid(_)
FlatMapValid(validated) ==
    IF validated = <<>> THEN <<>>
    ELSE (IF Head(validated) # NullEvent THEN <<Head(validated)>> ELSE <<>>)
            \o FlatMapValid(Tail(validated))

\* The whole call, with the values it passes through.
getEventsFromICS(text, reg, v, h) ==
    LET timezones == RegisterAll(reg, text.vtimezones)
        events == FilterEvents(SeqMap(LAMBDA c : HydrateEvent(c, timezones), text.vevents))
        Built(e) == Entry(e.uid, Convert(e, v, h))
        bases == SeqMap(Built, SelectSeq(events, IsBase))
        recurrenceExceptions == SeqMap(Built, SelectSeq(events, IsException))
        trace == ReconcileTrace(ObjectFromEntries(bases), recurrenceExceptions)
        last == trace[Len(trace)]
        allEvents == ObjectValues(last.obj) \o ObjectValues(recurrenceExceptions)
    IN  [st |-> "done",
         text |-> text,
         registryBefore |-> reg,
         timezones |-> timezones,
         events |-> events,
         bases |-> bases,
         recurrenceExceptions |-> recurrenceExceptions,
         trace |-> trace,
         baseEvents |-> last.obj,
         threw |-> last.threw,
         warned |-> last.warned,
         allEvents |-> allEvents,
         result |-> IF last.threw THEN <<>>
                    ELSE FlatMapValid(SeqMap(validateEvent, allEvents))]

-----------------------------------------------------------------------------
(* Inputs *)

Impls == {"part_001", "ics"}

\* the host's zone: Asia/Seoul, America/Bogota or UTC
HostOffsets == {9, -5, 0}

Tzids == {NoTz, "Z", "Asia/Seoul", "America/Bogota", "Custom"}

RawTime(d, h, tz) == [kind |-> "time", day |-> d, hour |-> h, isDate |-> FALSE, tzid |-> tz]
RawDate(d) == [kind |-> "time", day |-> d, hour |-> 0, isDate |-> TRUE, tzid |-> NoTz]

\* TimezoneService as a function; RegOf of the empty set is the registry of a
\* fresh process (only the built-in UTC zone, which Hydrate knows as "Z")
RegOf(S) == [z \in {p[1] : p \in S} |-> (CHOOSE p \in S : p[1] = z)[2]]

EmptyRegistry == RegOf({})

NoCall == [st |-> "none"]

\* one week of start days, early / midday / late start hours
ConvDays == 7..13
ConvHours == {3, 12, 21}

ConvStarts ==
    {RawTime(d, h, tz) : d \in ConvDays, h \in ConvHours, tz \in Tzids}
        \cup {RawDate(d) : d \in ConvDays}

BydayTokens == {"MO", "SA", "SU", "1MO"}

BydaySeqs == UNION {[1..n -> BydayTokens] : n \in 0..MaxByday}

Component(uid, rid, summary, hasRRule, byday, dtstart, dtend, exdates) ==
    [uid |-> uid, recurrenceId |-> rid, summary |-> summary, hasRRule |-> hasRRule,
     byday |-> byday, dtstart |-> dtstart, dtend |-> dtend, exdates |-> exdates]

\* the ends tried with a start: none, one hour later in the same zone, and
\* an end given in UTC or in Bogota time
ConvEnds(s) ==
    IF s.isDate THEN {NoTime, RawDate(s.day + 2)}
    ELSE {NoTime, RawTime(s.day, s.hour + 1, s.tzid), RawTime(s.day + 1, 1, "Z"),
          RawTime(s.day, 22, "America/Bogota")}

ConvExdates == {<<>>, <<RawTime(14, 3, "Asia/Seoul")>>, <<RawTime(14, 21, "Z")>>,
                <<RawTime(14, 21, "America/Bogota"), RawTime(21, 12, NoTz)>>}

ConvComponents ==
    \* recurring components with every BYDAY list
    {Component("a", FALSE, "ok", TRUE, b, s, NoTime, <<>>) :
        b \in BydaySeqs, s \in ConvStarts}
    \* single components with every end
    \cup UNION {{Component("a", FALSE, "ok", FALSE, <<>>, s, e, <<>>) : e \in ConvEnds(s)} :
                    s \in ConvStarts}
    \* recurring components with ends and exclusion dates
    \cup UNION {{Component("a", FALSE, "ok", TRUE, <<"MO">>, s, e, x) :
                    e \in ConvEnds(s), x \in ConvExdates} :
                        s \in {t \in ConvStarts : t.day = 8}}

ConvRegistries ==
    {EmptyRegistry,
     RegOf({<<"Asia/Seoul", 9>>, <<"America/Bogota", -5>>, <<"Custom", 3>>})}

-----------------------------------------------------------------------------
(* Specification of one icsToOFC application *)

InitConv ==
    /\ impl \in Impls
    /\ host \in HostOffsets
    /\ registry \in ConvRegistries
    /\ \E c \in ConvComponents : conv = [st |-> "pending", comp |-> c]
    /\ call = NoCall
    /\ first = NoCall
    /\ ncalls = 0

ConvertStep ==
    /\ conv.st = "pending"
    /\ LET e == HydrateEvent(conv.comp, registry)
       IN  conv' = [st |-> "done", comp |-> conv.comp, event |-> e,
                    out |-> Convert(e, impl, host)]
    /\ UNCHANGED <<impl, host, registry, call, first, ncalls>>

NextConv == ConvertStep

SpecConv == InitConv /\ [][NextConv]_vars

-----------------------------------------------------------------------------
(* What the claims speak of: the start instant, its source zone, the       *)
(* canonical zone                                                          *)

\* The source zone of an ical.Time is known when its name is absent (the
\* canonical zone, no shift), "Z" (UTC), an IANA name or a registered tzid.
SourceZoneKnown(t, reg) ==
    t.isDate \/ t.timezone \in {NoTz, "Z"} \/ IsValidZone(t.timezone)
        \/ t.timezone \in DOMAIN reg

SourceOffsetOf(tz, reg) ==
    IF tz = NoTz THEN IANAOffset(DEFAULT_ZONE)
    ELSE IF tz = "Z" THEN 0
    ELSE IF IsValidZone(tz) THEN IANAOffset(tz)
    ELSE reg[tz]

\* canonical-zone wall clock of the wall clock w read in zone tz
CanonicalWall(w, tz, reg) == w - SourceOffsetOf(tz, reg) + IANAOffset(DEFAULT_ZONE)

\* calendar days by which the start moves when brought to the canonical zone
CanonicalDayShift(t, reg) ==
    IF t.isDate THEN 0
    ELSE (CanonicalWall(Wall(t), t.timezone, reg) \div HoursPerDay) - t.day

\* a BYDAY token as rrule reads it: its ordinal (0 for none) and its weekday
TokenOrd(p) ==
    CASE p \in {"1MO", "+1MO"} -> 1
      [] p \in {"2TU", "+2TU"} -> 2
      [] OTHER -> 0

TokenDay(p) ==
    CASE p \in {"1MO", "+1MO"} -> "MO"
      [] p \in {"2TU", "+2TU"} -> "TU"
      [] OTHER -> p

Rotated(day, d) == WEEK_DAYS[((IndexOf(day) + d) % DaysPerWeek) + 1]

ConvDone == conv.st = "done"

\* the emitted rule holds the input's tokens, none rotated
BydayUnchanged == conv.out.rrule.byday = SeqMap(RRuleToken, conv.comp.byday)

C5_Original ==
    (/\ ConvDone
     /\ conv.comp.hasRRule
     /\ SourceZoneKnown(conv.event.dtstart, registry)
     /\ CanonicalDayShift(conv.event.dtstart, registry) # 0)
        => /\ Len(conv.out.rrule.byday) = Len(conv.comp.byday)
           /\ \A i \in 1..Len(conv.comp.byday) :
                /\ TokenDay(conv.out.rrule.byday[i])
                      = Rotated(TokenDay(conv.comp.byday[i]),
                                CanonicalDayShift(conv.event.dtstart, registry))
                /\ TokenOrd(conv.out.rrule.byday[i]) = TokenOrd(conv.comp.byday[i])

\* C6 as stated: a timed single component gets as startTime the canonical
\* time of day of its start, and as endTime the end's wall clock read in the
\* start's zone and brought to the canonical zone.
C6_Original ==
    (/\ ConvDone
     /\ ~conv.comp.hasRRule
     /\ ~conv.event.dtstart.isDate
     /\ SourceZoneKnown(conv.event.dtstart, registry))
        => /\ conv.out.startTime
                = CanonicalWall(Wall(conv.event.dtstart), conv.event.dtstart.timezone,
                                registry) % HoursPerDay
           /\ conv.out.endTime
                = CanonicalWall(Wall(EndDate(conv.event)), conv.event.dtstart.timezone,
                                registry) % HoursPerDay

\* C10: an all-day component, recurring or single, gives an event with
\* allDay true, without startTime and endTime, and with its date field
\* (date for a Single, startDate for a Recurring); in part_001 that date is
\* the component's own date.
C10_AllDayShape ==
    (ConvDone /\ conv.event.dtstart.isDate)
        => /\ conv.out.allDay = TRUE
           /\ "startTime" \notin DOMAIN conv.out
           /\ "endTime" \notin DOMAIN conv.out
           /\ conv.comp.hasRRule
                => /\ conv.out.type = "rrule"
                   /\ "startDate" \in DOMAIN conv.out
                   /\ impl = "part_001" => conv.out.startDate = conv.comp.dtstart.day
           /\ ~conv.comp.hasRRule
                => /\ conv.out.type = "single"
                   /\ "date" \in DOMAIN conv.out
                   /\ impl = "part_001" => conv.out.date = conv.comp.dtstart.day

C10_Witness ==
    /\ ConvDone
    /\ conv.event.dtstart.isDate
    /\ conv.comp.hasRRule
    /\ conv.comp.exdates # <<>>
    /\ conv.out.allDay = TRUE
    /\ DOMAIN conv.out = {"type", "title", "id", "rrule", "skipDates", "startDate", "allDay"}

\* C11 as stated: the date segment of the identifier of every event icsToOFC
\* builds equals the event's own date field (date for a Single, startDate
\* for a Recurring), whatever the start instant and the source zone.
C11_Original ==
    ConvDone
        => /\ conv.out.type = "single"
                => /\ conv.out.id = SingleId(conv.comp.uid, conv.out.date)
           /\ conv.out.type = "rrule"
                => /\ conv.out.id = RecurringId(conv.comp.uid, conv.out.startDate)

-----------------------------------------------------------------------------
(* Calendar texts *)

VTimezone(tzid, offset) == [tzid |-> tzid, offset |-> offset]

Text(vtimezones, vevents) == [vtimezones |-> vtimezones, vevents |-> vevents]

Seoul(d, h) == RawTime(d, h, "Asia/Seoul")

\* the VEVENTs the texts are made of
BaseRecurringA ==
    Component("a", FALSE, "ok", TRUE, <<"MO">>, Seoul(8, 12), NoTime, <<Seoul(15, 21)>>)
BaseRecurringABad ==
    Component("a", FALSE, "bad", TRUE, <<>>, Seoul(8, 3), Seoul(8, 5), <<>>)
BaseSingleA ==
    Component("a", FALSE, "ok", FALSE, <<>>, Seoul(9, 12), Seoul(10, 12), <<>>)
BaseRecurring10 ==
    Component("10", FALSE, "ok", TRUE, <<>>, RawDate(10), NoTime,
              <<RawTime(17, 3, "Custom")>>)
BaseSingle2 ==
    Component("2", FALSE, "ok", FALSE, <<>>, RawTime(11, 3, "Custom"), NoTime, <<>>)
BaseUnresolvable ==
    Component("a", FALSE, "ok", TRUE, <<>>, NoTime, NoTime, <<>>)
OverrideA ==
    Component("a", TRUE, "ok", FALSE, <<>>, RawTime(22, 21, "Z"), NoTime, <<>>)
OverrideABad ==
    Component("a", TRUE, "bad", FALSE, <<>>, RawDate(29), NoTime, <<>>)
OverrideRecurringA ==
    Component("a", TRUE, "ok", TRUE, <<>>, Seoul(36, 12), NoTime, <<>>)
Override10 ==
    Component("10", TRUE, "ok", FALSE, <<>>, RawDate(17), NoTime, <<>>)
OverrideConstructor ==
    Component("constructor", TRUE, "ok", FALSE, <<>>, RawTime(12, 12, NoTz), NoTime, <<>>)
OverrideUnresolvable ==
    Component("10", TRUE, "ok", FALSE, <<>>, RawDate(24), BadTime, <<>>)

VEvents ==
    {BaseRecurringA, BaseRecurringABad, BaseSingleA, BaseRecurring10, BaseSingle2,
     BaseUnresolvable, OverrideA, OverrideABad, OverrideRecurringA, Override10,
     OverrideConstructor, OverrideUnresolvable}

VEventSeqs == UNION {[1..n -> VEvents] : n \in 0..MaxEvents}

Texts == {Text(tz, ev) : tz \in {<<>>, <<VTimezone("Custom", 3)>>}, ev \in VEventSeqs}

-----------------------------------------------------------------------------
(* Specification of one getEventsFromICS call in a fresh process *)

DoCall(t) ==
    /\ call' = getEventsFromICS(t, registry, impl, host)
    /\ registry' = call'.timezones
    /\ first' = IF ncalls = 0 THEN call' ELSE first
    /\ ncalls' = ncalls + 1
    /\ UNCHANGED <<impl, host, conv>>

\* hosts of the calls: Asia/Seoul (the canonical zone) and America/Bogota
CallHosts == {9, -5}

Init ==
    /\ impl \in Impls
    /\ host \in CallHosts
    /\ registry = EmptyRegistry
    /\ conv = NoCall
    /\ \E t \in Texts : call = [st |-> "pending", text |-> t]
    /\ first = NoCall
    /\ ncalls = 0

CallPending ==
    /\ call.st = "pending"
    /\ DoCall(call.text)

Next == CallPending

Spec == Init /\ [][Next]_vars

-----------------------------------------------------------------------------
(* Claims about getEventsFromICS *)

CallDone == call.st = "done"

Range(s) == {s[i] : i \in 1..Len(s)}

Accepted(e) == validateEvent(e) # NullEvent

\* an event without what reconciliation may add to it
Unmerged(e) == IF e.type = "rrule" THEN [e EXCEPT !.skipDates = <<>>] ELSE e

RemoveAt(s, i) == SubSeq(s, 1, i - 1) \o SubSeq(s, i + 1, Len(s))

\* C1 as stated: an override that converted to Single and whose uid is the
\* uid of a base component that converted to Recurring has its date in that
\* base event's skipDates after the loop, and is itself returned when the
\* validator accepts it.
C1_Original ==
    CallDone =>
        \A j \in 1..Len(call.bases), i \in 1..Len(call.recurrenceExceptions) :
            LET b == call.bases[j]
                x == call.recurrenceExceptions[i]
            IN  (b.value.type = "rrule" /\ x.key = b.key /\ x.value.type = "single")
                    => /\ \E k \in 1..Len(call.baseEvents) :
                            /\ call.baseEvents[k].value.type = "rrule"
                            /\ Unmerged(call.baseEvents[k].value) = Unmerged(b.value)
                            /\ x.value.date \in Range(call.baseEvents[k].value.skipDates)
                       /\ Accepted(x.value) => x.value \in Range(call.result)

\* C2 as stated: the returned sequence is every base event in source order,
\* then every override event in source order (those the validator accepts),
\* for every input.
C2_Original ==
    CallDone =>
        SeqMap(Unmerged, call.result)
            = SeqMap(Unmerged,
                     SelectSeq(ObjectValues(call.bases) \o ObjectValues(call.recurrenceExceptions),
                               Accepted))

\* the i-th override has the uid of no base event
Orphan(i) ==
    \A j \in 1..Len(call.bases) : call.bases[j].key # call.recurrenceExceptions[i].key

\* C7: the loop iteration of an override whose uid matches no base event
\* changes no event and raises no error, and the call returns.
C7_OrphanOverrideNoEffect ==
    CallDone =>
        \A i \in 1..Len(call.recurrenceExceptions) :
            Orphan(i) => /\ call.trace[i + 1].obj = call.trace[i].obj
                         /\ ~call.trace[i + 1].threw
                         /\ ~call.threw

\* a base, an override of an unknown series, then an override of the base
C7_Witness ==
    /\ CallDone
    /\ Len(call.bases) = 1
    /\ Len(call.recurrenceExceptions) = 2
    /\ Orphan(1)
    /\ GetProp(call.trace[1].obj, call.recurrenceExceptions[1].key).found = "none"
    /\ ~Orphan(2)
    /\ call.trace[2] = call.trace[1]
    /\ call.trace[3] # call.trace[2]
    /\ Len(call.result) = 3

\* C8: a VEVENT whose start or end does not resolve takes no part in the
\* call: the call gives what it gives for the text without that VEVENT.
C8_UnresolvableExcluded ==
    CallDone =>
        \A i \in 1..Len(call.text.vevents) :
            ~Resolvable(HydrateEvent(call.text.vevents[i], call.timezones))
                => LET without == getEventsFromICS(
                                    Text(call.text.vtimezones, RemoveAt(call.text.vevents, i)),
                                    call.registryBefore, impl, host)
                   IN  /\ call.result = without.result
                       /\ call.baseEvents = without.baseEvents
                       /\ call.recurrenceExceptions = without.recurrenceExceptions
                       /\ ~call.threw

\* an unresolvable VEVENT between a base and its override
C8_Witness ==
    /\ CallDone
    /\ Len(call.text.vevents) = 3
    /\ ~Resolvable(HydrateEvent(call.text.vevents[2], call.timezones))
    /\ Len(call.events) = 2
    /\ Len(call.recurrenceExceptions) = 1
    /\ Len(call.result) = 2
    /\ call.trace[2] # call.trace[1]

\* C9: the returned sequence is the subsequence, in order, of the base
\* events followed by the override events that validateEvent accepts; a
\* rejection removes that record only and does not end the call.
C9_ResultIsAcceptedSubsequence ==
    CallDone =>
        /\ ~call.threw
        /\ call.result
            = SelectSeq(ObjectValues(call.baseEvents) \o ObjectValues(call.recurrenceExceptions),
                        Accepted)

\* a rejected record between two accepted ones
C9_Witness ==
    /\ CallDone
    /\ Len(call.allEvents) = 3
    /\ Accepted(call.allEvents[1])
    /\ ~Accepted(call.allEvents[2])
    /\ Accepted(call.allEvents[3])
    /\ call.result = <<call.allEvents[1], call.allEvents[3]>>

\* the calendar date, in the canonical zone, of an EXDATE value
CanonicalDate(t, reg) ==
    IF t.isDate THEN t.day
    ELSE CanonicalWall(Wall(t), t.timezone, reg) \div HoursPerDay

\* the component baseEvents holds under the key uid: the last base VEVENT
\* of the text with that uid
BaseComponentOf(uid) ==
    LET comps == SelectSeq(call.events, IsBase)
        j == CHOOSE n \in 1..Len(comps) :
                /\ comps[n].uid = uid
                /\ \A m \in (n + 1)..Len(comps) : comps[m].uid # uid
    IN  comps[j]

\* the dates of the overrides with that uid that converted to Single, in
\* source order
SingleOverrideDates(uid) ==
    LET Matches(x) == x.key = uid /\ x.value.type = "single"
        xs == SelectSeq(call.recurrenceExceptions, Matches)
    IN  [i \in 1..Len(xs) |-> xs[i].value.date]

\* C12 as stated: after the loop the skipDates of every Recurring base event
\* are the canonical-zone calendar dates of its component's EXDATEs, in
\* property order, followed by the dates of the Single overrides with its
\* uid, in source order, duplicates kept; every other event is as it was
\* before the loop.
C12_Original ==
    CallDone =>
        /\ Len(call.baseEvents) = Len(call.trace[1].obj)
        /\ \A k \in 1..Len(call.baseEvents) :
             LET b == call.baseEvents[k]
                 c == BaseComponentOf(b.key)
             IN  /\ Unmerged(b.value) = Unmerged(call.trace[1].obj[k].value)
                 /\ b.value.type # "rrule" => b = call.trace[1].obj[k]
                 /\ (/\ b.value.type = "rrule"
                     /\ \A n \in 1..Len(c.exdates) :
                            SourceZoneKnown(c.exdates[n], call.timezones))
                        => b.value.skipDates
                             = [n \in 1..Len(c.exdates) |->
                                    CanonicalDate(c.exdates[n], call.timezones)]
                               \o SingleOverrideDates(b.key)

\* what the loop finds in baseEvents under the uid of the i-th override
BaseOf(i) == GetProp(call.trace[i].obj, call.recurrenceExceptions[i].key)

\* the i-th override meets a base event of its uid that converted to Single
MatchedSingleBase(i) ==
    /\ BaseOf(i).found = "own"
    /\ call.trace[i].obj[BaseOf(i).at].value.type = "single"

\* the i-th override converted to Single and meets a Recurring base event
MatchedRecurringBase(i) ==
    /\ BaseOf(i).found = "own"
    /\ call.trace[i].obj[BaseOf(i).at].value.type = "rrule"
    /\ call.recurrenceExceptions[i].value.type = "single"

\* how many of the first k records of allEvents the validator accepts
AcceptedUpTo(k) == Cardinality({m \in 1..k : Accepted(call.allEvents[m])})

\* C13 as stated: a base event that converted to Single and whose uid an
\* override names is not merged and is not in the returned sequence.
C13_Original ==
    CallDone =>
        \A i \in 1..Len(call.recurrenceExceptions) :
            MatchedSingleBase(i)
                => /\ call.trace[i + 1].obj = call.trace[i].obj
                   /\ call.trace[i].obj[BaseOf(i).at].value \notin Range(call.result)

\* C13 amended: a base event that converted to Single and whose uid an
\* override names is not merged (the iteration changes no event and logs
\* one warning) and stays in baseEvents: it is returned, at its place among
\* the base events, whenever the validator accepts it.
C13_SingleBaseKept ==
    CallDone =>
        \A i \in 1..Len(call.recurrenceExceptions) :
            MatchedSingleBase(i)
                => LET at == BaseOf(i).at
                       base == call.trace[i].obj[at].value
                   IN  /\ call.trace[i + 1].obj = call.trace[i].obj
                       /\ call.trace[i + 1].warned = call.trace[i].warned + 1
                       /\ call.allEvents[at] = base
                       /\ Accepted(base) => call.result[AcceptedUpTo(at)] = base

\* a Single base event and an override of its uid, both returned
C13_Witness ==
    /\ CallDone
    /\ Len(call.bases) = 1
    /\ Len(call.recurrenceExceptions) = 1
    /\ MatchedSingleBase(1)
    /\ call.warned = 1
    /\ Len(call.result) = 2
    /\ call.result[1] = call.bases[1].value
    /\ call.result[1].type = "single"
    /\ call.result[2] = call.recurrenceExceptions[1].value

\* C14: the loop ends before any record is validated: a Single override
\* that meets a Recurring base event adds its date to that event's
\* skipDates whether or not the validator accepts the override, the base
\* event is validated and returned with that date, and a rejected override
\* is not returned.
C14_MergeBeforeValidation ==
    CallDone =>
        \A i \in 1..Len(call.recurrenceExceptions) :
            MatchedRecurringBase(i)
                => LET at == BaseOf(i).at
                       x == call.recurrenceExceptions[i].value
                       base == call.baseEvents[at].value
                   IN  /\ call.trace[i + 1].obj[at].value.skipDates
                            = Append(call.trace[i].obj[at].value.skipDates, x.date)
                       /\ x.date \in Range(base.skipDates)
                       /\ call.allEvents[at] = base
                       /\ Accepted(base) => call.result[AcceptedUpTo(at)] = base
                       /\ ~Accepted(x) => x \notin Range(call.result)

\* a Recurring base event returned alone, excluding the date of a rejected
\* override
C14_Witness ==
    /\ CallDone
    /\ Len(call.bases) = 1
    /\ Len(call.recurrenceExceptions) = 1
    /\ MatchedRecurringBase(1)
    /\ ~Accepted(call.recurrenceExceptions[1].value)
    /\ Len(call.result) = 1
    /\ call.result[1].type = "rrule"
    /\ call.result[1].skipDates
          = Append(call.bases[1].value.skipDates, call.recurrenceExceptions[1].value.date)

-----------------------------------------------------------------------------
(* Specification of repeated getEventsFromICS calls in one process: the    *)
(* registry of one call is the registry the next call starts with          *)

\* events in a zone their text may or may not define
RecurringBogota ==
    Component("a", FALSE, "ok", TRUE, <<"MO">>, RawTime(8, 12, "America/Bogota"), NoTime,
              <<RawTime(15, 12, "America/Bogota")>>)
SingleCustom ==
    Component("b", FALSE, "ok", FALSE, <<>>, RawTime(9, 16, "Custom"),
              RawTime(9, 17, "Custom"), <<>>)
SingleUTC ==
    Component("c", FALSE, "ok", FALSE, <<>>, RawTime(9, 21, "Z"), NoTime, <<>>)

RepeatVEventSeqs ==
    {<<>>, <<RecurringBogota>>, <<SingleCustom>>, <<SingleUTC>>,
     <<RecurringBogota, SingleCustom>>}

RepeatVTimezones ==
    {<<>>, <<VTimezone("America/Bogota", -5)>>, <<VTimezone("Custom", 3)>>,
     <<VTimezone("Custom", -4)>>}

RepeatTexts == {Text(tz, ev) : tz \in RepeatVTimezones, ev \in RepeatVEventSeqs}

InitRepeat ==
    /\ impl \in Impls
    /\ host \in CallHosts
    /\ registry = EmptyRegistry
    /\ conv = NoCall
    /\ call = NoCall
    /\ first = NoCall
    /\ ncalls = 0

CallText(t) ==
    /\ ncalls < MaxCalls
    /\ DoCall(t)

NextRepeat == \E t \in RepeatTexts : CallText(t)

SpecRepeat == InitRepeat /\ [][NextRepeat]_vars

\* C3 as stated: a call on the text of the first call gives the result of
\* the first call, whatever calls were made in between.
C3_Original ==
    (CallDone /\ ncalls >= 2 /\ call.text = first.text) => call.result = first.result

====
